---- MODULE Spec2Model ----
(***************************************************************************)
(* Model of the streaming and session bridge of objectstorex               *)
(* (native/objectstorex/src/streaming.rs): the multipart upload session    *)
(* (start_upload_session, upload_chunk, complete_upload, abort_upload)     *)
(* and the download / list streams with their task registries; and of the  *)
(* single-shot operations map_error (errors.rs), delete_many and           *)
(* rename_if_not_exists (operations.rs).                                   *)
(*                                                                         *)
(* Buffer lengths are counted in blocks of 1 MiB, so part_size, which is   *)
(* 5 * 1024 * 1024 bytes in the source, is 5 blocks here.  Every block     *)
(* a caller appends carries its own number (its position among all the     *)
(* blocks handed to the session), so a loss, a duplication or a reordering *)
(* of bytes is visible in the parts the backend receives.                  *)
(***************************************************************************)
EXTENDS Integers, Sequences, FiniteSets, TLC

\* ------------------------------------------------------------------ bounds
MaxUploadCalls == 4
MaxChunkLen == 5
MaxElems == 2
MaxConcCalls == 2
MaxPaths == 2

\* part_size: 5 * 1024 * 1024, counted in 1 MiB blocks.
part_size == 5

NoData == << >>

\* The upload session resources the caller holds (ResourceArc<UploadSessionWrapper>).
UploadSessions == {"sA", "sB"}

VARIABLES
  opened,      \* opened[s]: start_upload_session has returned the resource s
  buffer,      \* buffer[s]: UploadSessionWrapper.buffer
  multipart,   \* multipart[s]: the calls the backend's MultipartUpload handle of s received
  calls,       \* calls[s]: the NIF calls made on s, each with its argument and result
  proc,        \* proc[p]: the NIF call caller p is inside, and where it stands in it
  mpLock,      \* who holds the TokioMutex around the session's multipart handle
  ret,         \* the last NIF call and what it returned: {:ok, value}, :ok or an error
  nstreams,    \* how many download / list streams have been started
  backend,     \* backend[id]: what the store answers the task of stream id
  task,        \* task[id]: the spawned task of stream id
  STREAM_REGISTRY,  \* stream id -> JoinHandle of its task (download streams)
  LIST_REGISTRY,    \* list id -> JoinHandle of its task (list streams)
  mailbox,     \* mailbox[id]: the messages bearing id delivered to its receiver
  receiverAlive,    \* receiverAlive[id]: the receiver pid given for id is alive
  store,       \* store[path]: the content of the object at path in the backend, 0 if none
  opcall       \* the last single-shot operation called, its input and what it returned

uploadVars == <<opened, buffer, multipart, calls, proc, mpLock>>
streamVars == <<nstreams, backend, task, STREAM_REGISTRY, LIST_REGISTRY, mailbox,
                receiverAlive>>
opsVars == <<store, opcall>>
vars == <<opened, buffer, multipart, calls, proc, mpLock, ret, nstreams, backend, task,
          STREAM_REGISTRY, LIST_REGISTRY, mailbox, receiverAlive, store, opcall>>

\* ------------------------------------------------------------ sequences
RECURSIVE SumLen(_)
SumLen(ss) == IF ss = << >> THEN 0 ELSE Len(Head(ss)) + SumLen(Tail(ss))

\* ------------------------------------------------- multipart upload session
IsChunkCall(c) == c.op = "upload_chunk"
\* The chunks handed to upload_chunk in the calls cs, in call order.
ChunkArgs(cs) ==
  LET sel == SelectSeq(cs, IsChunkCall) IN [i \in 1..Len(sel) |-> sel[i].arg]
Call(op, arg, result) == [op |-> op, arg |-> arg, result |-> result]

\* All the calls made on upload sessions so far (the model's call budget).
TotalCalls == SumLen([i \in 1..2 |-> calls[IF i = 1 THEN "sA" ELSE "sB"]])

\* The chunk of n blocks the caller hands to session s: its blocks are numbered
\* on from the blocks of the chunks handed to s so far.
ChunkOf(s, n) ==
  LET off == SumLen(ChunkArgs(calls[s]))
  IN  [i \in 1..n |-> off + i]

\* Mutant: the chunk replaces the buffer instead of being appended to it.
extend_from_slice_overwrite(buf, chunk) == chunk

\* buffer.extend_from_slice(chunk.as_slice()).  (The buffer's std Mutex is only
\* ever held for one Vec operation, so it is never found poisoned and the
\* "Buffer lock error" returns are not reached.)
extend_from_slice(buf, chunk) == buf \o chunk

\* Mutant: the threshold itself is not enough, > instead of >=.
should_upload_strict(buf) == Len(buf) > part_size
\* Mutant: every non-empty buffer is uploaded at once (no buffering).
should_upload_always(buf) == Len(buf) > 0

\* buffer.len() >= session.part_size
should_upload(buf) == Len(buf) >= part_size

\* Mutant: only part_size bytes are taken, the rest stays in the buffer.
drain_retain(buf) ==
  LET n == IF Len(buf) < part_size THEN Len(buf) ELSE part_size
  IN  [data |-> SubSeq(buf, 1, n), rest |-> SubSeq(buf, n + 1, Len(buf))]

\* buffer.drain(..).collect::<Vec<u8>>(): the bytes taken and what the buffer keeps
drain(buf) == [data |-> buf, rest |-> << >>]

\* multipart.put_part(payload), multipart.complete(), multipart.abort(): one more
\* call on the backend's handle; ok is the backend's answer.
put_part(mp, payload, ok) == Append(mp, [op |-> "put_part", data |-> payload, ok |-> ok])
complete(mp, ok) == Append(mp, [op |-> "complete", ok |-> ok])
abort(mp, ok) == Append(mp, [op |-> "abort", ok |-> ok])

\* Mutant: the bytes of a part whose put_part failed are put back into the buffer.
upload_chunk_restore(buf, mp, chunk, ok) ==
  LET appended == buf \o chunk IN
  IF Len(appended) >= part_size
    THEN [buffer |-> IF ok THEN << >> ELSE appended,
          multipart |-> Append(mp, [op |-> "put_part", data |-> appended, ok |-> ok]),
          result |-> IF ok THEN "ok" ELSE "Failed to upload part"]
    ELSE [buffer |-> appended, multipart |-> mp, result |-> "ok"]

\* upload_chunk on a session whose buffer is buf and whose handle has received mp:
\* the buffer, the handle's calls and the result when the call returns.  ok is the
\* backend's answer to put_part, should the call make one.
upload_chunk(buf, mp, chunk, ok) ==
  LET appended == extend_from_slice(buf, chunk) IN
  IF should_upload(appended)
    THEN LET d == drain(appended) IN
         [buffer |-> d.rest,
          multipart |-> put_part(mp, d.data, ok),
          result |-> IF ok THEN "ok" ELSE "Failed to upload part"]
    ELSE [buffer |-> appended, multipart |-> mp, result |-> "ok"]

\* Mutant: the error of the final put_part is dropped (no `?`), complete is called
\* all the same.
complete_upload_ignore_part_error(buf, mp, okPart, okDone) ==
  LET withPart == IF buf # << >>
                    THEN Append(mp, [op |-> "put_part", data |-> buf, ok |-> okPart])
                    ELSE mp
  IN  [buffer |-> << >>,
       multipart |-> Append(withPart, [op |-> "complete", ok |-> okDone]),
       result |-> IF okDone THEN "ok" ELSE "Failed to complete upload"]

\* Mutant: the is_empty() test is missing, a final part is always uploaded.
complete_upload_always_part(buf, mp, okPart, okDone) ==
  LET withPart == Append(mp, [op |-> "put_part", data |-> buf, ok |-> okPart])
  IN  IF ~okPart
        THEN [buffer |-> << >>, multipart |-> withPart,
              result |-> "Failed to upload final part"]
        ELSE [buffer |-> << >>,
              multipart |-> Append(withPart, [op |-> "complete", ok |-> okDone]),
              result |-> IF okDone THEN "ok" ELSE "Failed to complete upload"]

\* complete_upload: okPart answers the final put_part (if any), okDone the complete.
complete_upload(buf, mp, okPart, okDone) ==
  LET d == drain(buf)
      withPart == IF d.data # << >> THEN put_part(mp, d.data, okPart) ELSE mp
  IN  IF d.data # << >> /\ ~okPart
        THEN [buffer |-> d.rest, multipart |-> withPart,
              result |-> "Failed to upload final part"]
        ELSE [buffer |-> d.rest, multipart |-> complete(withPart, okDone),
              result |-> IF okDone THEN "ok" ELSE "Failed to complete upload"]

\* abort_upload: the buffer is not touched.
abort_upload(buf, mp, ok) ==
  [buffer |-> buf, multipart |-> abort(mp, ok),
   result |-> IF ok THEN "ok" ELSE "Failed to abort upload"]

\* The callers (Elixir processes on dirty schedulers) that may be inside a NIF
\* call on the same session at the same time.
Callers == {"p1", "p2"}
\* locks: the std Mutex guards the call still holds when its step is over;
\* began: how many calls on the session had returned when this call was made.
Idle == [pc |-> "idle", op |-> "none", on |-> "none", chunk |-> << >>, data |-> << >>,
         next |-> "none", locks |-> {}, began |-> 0]

InitUpload ==
  /\ opened = [s \in UploadSessions |-> FALSE]
  /\ buffer = [s \in UploadSessions |-> << >>]
  /\ multipart = [s \in UploadSessions |-> << >>]
  /\ calls = [s \in UploadSessions |-> << >>]
  /\ proc = [p \in Callers |-> Idle]
  /\ mpLock = [s \in UploadSessions |-> "free"]

\* start_upload_session: put_multipart on the backend, then a fresh session with
\* an empty buffer.
StartUploadSession(s) ==
  /\ ~opened[s]
  /\ \E ok \in BOOLEAN :
       /\ UNCHANGED <<streamVars, opsVars>>
       /\ IF ok
         THEN /\ opened' = [opened EXCEPT ![s] = TRUE]
              /\ buffer' = [buffer EXCEPT ![s] = << >>]
              /\ multipart' = [multipart EXCEPT ![s] = << >>]
              /\ calls' = [calls EXCEPT ![s] = << >>]
              /\ UNCHANGED <<proc, mpLock>>
              /\ ret' = [op |-> "start_upload_session", result |-> "ok", value |-> s]
         ELSE /\ UNCHANGED uploadVars
              /\ ret' = [op |-> "start_upload_session",
                         result |-> "Failed to initialize multipart upload",
                         value |-> ""]

Returned(s, op, arg, r) ==
  /\ buffer' = [buffer EXCEPT ![s] = r.buffer]
  /\ multipart' = [multipart EXCEPT ![s] = r.multipart]
  /\ calls' = [calls EXCEPT ![s] = Append(@, Call(op, arg, r.result))]
  /\ ret' = [op |-> op, result |-> r.result, value |-> ""]
  /\ UNCHANGED <<opened, proc, mpLock, streamVars, opsVars>>

UploadChunk(s) ==
  /\ opened[s]
  /\ TotalCalls < MaxUploadCalls
  /\ \E n \in 0..MaxChunkLen, ok \in BOOLEAN :
       LET chunk == ChunkOf(s, n)
           r == upload_chunk(buffer[s], multipart[s], chunk, ok)
       IN  /\ (~ok => should_upload(extend_from_slice(buffer[s], chunk)))
           /\ Returned(s, "upload_chunk", chunk, r)

CompleteUpload(s) ==
  /\ opened[s]
  /\ TotalCalls < MaxUploadCalls
  /\ \E okPart, okDone \in BOOLEAN :
       /\ (~okPart => buffer[s] # << >>)
       /\ (~okDone => (okPart \/ buffer[s] = << >>))
       /\ Returned(s, "complete_upload", NoData,
                   complete_upload(buffer[s], multipart[s], okPart, okDone))

AbortUpload(s) ==
  /\ opened[s]
  /\ TotalCalls < MaxUploadCalls
  /\ \E ok \in BOOLEAN :
       Returned(s, "abort_upload", NoData, abort_upload(buffer[s], multipart[s], ok))

\* ------------------------------- the upload NIFs, step by step, for callers
\* that run at the same time.  A step is what a call does under one lock: one
\* lock of the buffer's std Mutex, or the TokioMutex of the multipart handle
\* taken, held over the backend call and released.
InFlight == Cardinality({p \in Callers : proc[p].pc # "idle"})

\* The blocks the parts of the handle log mp hold.
RECURSIVE PartBlocks(_)
PartBlocks(mp) ==
  IF mp = << >> THEN 0
  ELSE (IF Head(mp).op = "put_part" THEN Len(Head(mp).data) ELSE 0) + PartBlocks(Tail(mp))

\* The blocks that have entered the buffer of s so far: those still in it, those
\* a running call has drained and holds, those handed to put_part.
Appended(s) ==
  Len(buffer[s]) + PartBlocks(multipart[s])
  + SumLen([i \in 1..2 |->
             LET q == IF i = 1 THEN "p1" ELSE "p2"
             IN  IF proc[q].on = s THEN proc[q].data ELSE << >>])

\* The chunk of n blocks a caller appends to s while other calls may be running:
\* its blocks get their numbers as they enter the buffer, on from the blocks
\* that entered before.
ChunkOfConc(s, n) == [i \in 1..n |-> Appended(s) + i]

\* No other call holds the guard of the buffer's std Mutex of the session p works on.
BufferFree(p) ==
  \A q \in Callers \ {p} : proc[q].on = proc[p].on => "buffer" \notin proc[q].locks

\* Caller p enters upload_chunk, complete_upload or abort_upload on s.
BeginUploadChunk(p, s) ==
  /\ proc[p].pc = "idle" /\ opened[s]
  /\ TotalCalls + InFlight < MaxConcCalls
  /\ \E n \in 0..MaxChunkLen :
       proc' = [proc EXCEPT ![p] = [pc |-> "append", op |-> "upload_chunk", on |-> s,
                                    chunk |-> [i \in 1..n |-> 0], data |-> << >>,
                                    next |-> "none", locks |-> {},
                                    began |-> Len(calls[s])]]
  /\ UNCHANGED <<opened, buffer, multipart, calls, mpLock, ret, streamVars, opsVars>>

BeginCompleteUpload(p, s) ==
  /\ proc[p].pc = "idle" /\ opened[s]
  /\ TotalCalls + InFlight < MaxConcCalls
  /\ proc' = [proc EXCEPT ![p] = [pc |-> "drain", op |-> "complete_upload", on |-> s,
                                  chunk |-> << >>, data |-> << >>, next |-> "none",
                                  locks |-> {}, began |-> Len(calls[s])]]
  /\ UNCHANGED <<opened, buffer, multipart, calls, mpLock, ret, streamVars, opsVars>>

BeginAbortUpload(p, s) ==
  /\ proc[p].pc = "idle" /\ opened[s]
  /\ TotalCalls + InFlight < MaxConcCalls
  /\ proc' = [proc EXCEPT ![p] = [pc |-> "lock", op |-> "abort_upload", on |-> s,
                                  chunk |-> << >>, data |-> << >>, next |-> "abort",
                                  locks |-> {}, began |-> Len(calls[s])]]
  /\ UNCHANGED <<opened, buffer, multipart, calls, mpLock, ret, streamVars, opsVars>>

\* The call of p returns result.
Finish(p, result) ==
  /\ calls' = [calls EXCEPT ![proc[p].on] =
                 Append(@, Call(proc[p].op, proc[p].chunk, result))]
  /\ ret' = [op |-> proc[p].op, result |-> result, value |-> ""]
  /\ proc' = [proc EXCEPT ![p] = Idle]

\* upload_chunk: { buffer.lock(); buffer.extend_from_slice(chunk) }
BufAppend(p) ==
  /\ proc[p].pc = "append" /\ BufferFree(p)
  /\ LET chunk == ChunkOfConc(proc[p].on, Len(proc[p].chunk)) IN
     /\ buffer' = [buffer EXCEPT ![proc[p].on] = extend_from_slice(@, chunk)]
     /\ proc' = [proc EXCEPT ![p].pc = "check", ![p].chunk = chunk, ![p].locks = {}]
  /\ UNCHANGED <<opened, multipart, calls, mpLock, ret, streamVars, opsVars>>

\* upload_chunk: let should_upload = { buffer.lock(); buffer.len() >= part_size }
BufCheck(p) ==
  /\ proc[p].pc = "check" /\ BufferFree(p)
  /\ IF should_upload(buffer[proc[p].on])
       THEN /\ proc' = [proc EXCEPT ![p].pc = "drain"]
            /\ UNCHANGED <<calls, ret>>
       ELSE Finish(p, "ok")
  /\ UNCHANGED <<opened, buffer, multipart, mpLock, streamVars, opsVars>>

\* Mutant: the buffer's guard is not scoped to the drain and lives on through the
\* backend calls that follow.
BufDrain_holding(p) ==
  /\ proc[p].pc = "drain"
  /\ \A q \in Callers \ {p} : proc[q].on = proc[p].on => "buffer" \notin proc[q].locks
  /\ buffer' = [buffer EXCEPT ![proc[p].on] = << >>]
  /\ proc' = [proc EXCEPT ![p].data = buffer[proc[p].on],
                          ![p].pc = "lock",
                          ![p].locks = {"buffer"},
                          ![p].next = IF proc[p].op = "complete_upload"
                                         /\ buffer[proc[p].on] = << >>
                                        THEN "complete" ELSE "put_part"]
  /\ UNCHANGED <<opened, multipart, calls, mpLock, ret, nstreams, backend, task,
                 STREAM_REGISTRY, LIST_REGISTRY, mailbox, receiverAlive, opsVars>>

\* upload_chunk, complete_upload: { buffer.lock(); buffer.drain(..).collect() }
BufDrain(p) ==
  /\ proc[p].pc = "drain" /\ BufferFree(p)
  /\ LET d == drain(buffer[proc[p].on]) IN
     /\ buffer' = [buffer EXCEPT ![proc[p].on] = d.rest]
     /\ proc' = [proc EXCEPT ![p].data = d.data,
                             ![p].pc = "lock",
                             ![p].locks = {},
                             ![p].next = IF proc[p].op = "complete_upload" /\ d.data = << >>
                                           THEN "complete" ELSE "put_part"]
  /\ UNCHANGED <<opened, multipart, calls, mpLock, ret, streamVars, opsVars>>

\* Mutant: one mutex for the handles of all sessions.
MpLock_global(p) ==
  /\ proc[p].pc = "lock"
  /\ \A s \in UploadSessions : mpLock[s] = "free"
  /\ mpLock' = [mpLock EXCEPT ![proc[p].on] = p]
  /\ proc' = [proc EXCEPT ![p].pc = "io"]
  /\ UNCHANGED <<opened, buffer, multipart, calls, ret, nstreams, backend, task,
                 STREAM_REGISTRY, LIST_REGISTRY, mailbox, receiverAlive, opsVars>>

\* multipart_clone.lock().await: the caller gets the handle's mutex when it is free
MpLock(p) ==
  /\ proc[p].pc = "lock"
  /\ mpLock[proc[p].on] = "free"
  /\ mpLock' = [mpLock EXCEPT ![proc[p].on] = p]
  /\ proc' = [proc EXCEPT ![p].pc = "io"]
  /\ UNCHANGED <<opened, buffer, multipart, calls, ret, streamVars, opsVars>>

\* multipart.put_part(payload).await under the mutex, which is then released
PutPartCall(p) ==
  /\ proc[p].pc = "io" /\ proc[p].next = "put_part"
  /\ \E ok \in BOOLEAN :
       /\ multipart' = [multipart EXCEPT ![proc[p].on] = put_part(@, proc[p].data, ok)]
       /\ IF proc[p].op = "upload_chunk"
            THEN Finish(p, IF ok THEN "ok" ELSE "Failed to upload part")
            ELSE IF ok
              THEN /\ proc' = [proc EXCEPT ![p].pc = "lock", ![p].next = "complete",
                                           ![p].data = << >>]
                   /\ UNCHANGED <<calls, ret>>
              ELSE Finish(p, "Failed to upload final part")
  /\ mpLock' = [mpLock EXCEPT ![proc[p].on] = "free"]
  /\ UNCHANGED <<opened, buffer, streamVars, opsVars>>

\* multipart.complete().await under the mutex
CompleteCall(p) ==
  /\ proc[p].pc = "io" /\ proc[p].next = "complete"
  /\ \E ok \in BOOLEAN :
       /\ multipart' = [multipart EXCEPT ![proc[p].on] = complete(@, ok)]
       /\ Finish(p, IF ok THEN "ok" ELSE "Failed to complete upload")
  /\ mpLock' = [mpLock EXCEPT ![proc[p].on] = "free"]
  /\ UNCHANGED <<opened, buffer, streamVars, opsVars>>

\* multipart.abort().await under the mutex
AbortCall(p) ==
  /\ proc[p].pc = "io" /\ proc[p].next = "abort"
  /\ \E ok \in BOOLEAN :
       /\ multipart' = [multipart EXCEPT ![proc[p].on] = abort(@, ok)]
       /\ Finish(p, IF ok THEN "ok" ELSE "Failed to abort upload")
  /\ mpLock' = [mpLock EXCEPT ![proc[p].on] = "free"]
  /\ UNCHANGED <<opened, buffer, streamVars, opsVars>>

\* ------------------------------------------------- download and list streams
\* Uuid::new_v4().to_string(): the id of the n-th stream started.  Ids are fresh:
\* no two streams share one.
StreamId(n) == ToString(n)
\* The model runs two streams, enough for one to be cancelled beside another.
StreamIds == {StreamId(1), StreamId(2)}
\* What a caller may pass to cancel_download_stream: any id, "0" is one no stream has.
CancelIds == StreamIds \cup {"0"}

\* A task: its position in the task body, the elements pulled so far, whether its
\* abort was requested, and sid, the stream id its closure captured for its messages.
NoTask == [kind |-> "none", pc |-> "none", pos |-> 0, aborted |-> FALSE, sid |-> "none"]

\* The i-th element of a download's byte stream, and of a listing (ObjectMeta of
\* the i-th key; the keys are distinct).  e_tag and version are Options: << >> is
\* None, <<x>> is Some(x).
Bytes(i) == <<i>>
ObjectMeta(i) ==
  [location |-> ToString(i), size |-> i, last_modified |-> i,
   e_tag |-> IF i % 2 = 1 THEN <<"etag">> ELSE << >>,
   version |-> IF i % 2 = 0 THEN <<"v">> ELSE << >>]

\* A backend's lazy sequence: a finite sequence of results, Ok(element) or Err(e).
Sources(kind) ==
  UNION {{[i \in 1..n |->
             IF f[i] THEN (IF kind = "download" THEN [ok |-> TRUE, bytes |-> Bytes(i)]
                           ELSE [ok |-> TRUE, meta |-> ObjectMeta(i)])
                     ELSE [ok |-> FALSE, err |-> "backend error"]]
          : f \in [1..n -> BOOLEAN]} : n \in 0..MaxElems}

\* registry.insert(id, handle), registry.remove(&id) on a HashMap
insert(registry, id, handle) ==
  [k \in DOMAIN registry \cup {id} |-> IF k = id THEN handle ELSE registry[k]]
remove(registry, id) == [k \in DOMAIN registry \ {id} |-> registry[k]]

\* env.send_and_clear(receiver_pid, ..): the message reaches the mailbox of a live
\* receiver and is dropped for a dead one; the callers ignore which (let _ =).
send_and_clear(box, alive, msg) == IF alive THEN Append(box, msg) ELSE box

\* last_modified.to_string() and the Option fields of encode_object_meta
TimeToString(t) == "1970-01-01 00:00:0" \o ToString(t) \o " UTC"
encode_object_meta(meta) ==
  [k \in {"location", "size", "last_modified", "version"}
         \cup (IF meta.e_tag # << >> THEN {"etag"} ELSE {}) |->
     CASE k = "location" -> meta.location
       [] k = "size" -> meta.size
       [] k = "last_modified" -> TimeToString(meta.last_modified)
       [] k = "etag" -> meta.e_tag[1]
       [] k = "version" -> IF meta.version = << >> THEN "nil" ELSE meta.version[1]]

\* Mutant: the binary is allocated but the bytes are not copied into it.
send_chunk_zeroed(box, alive, id, bytes) ==
  [mailbox |-> send_and_clear(box, alive,
                 [tag |-> "chunk", id |-> id, data |-> [i \in 1..Len(bytes) |-> 0]]),
   sent |-> TRUE]

\* Mutant: send_object reports the send as failed.
send_object_unsent(box, alive, id, meta) ==
  [mailbox |-> send_and_clear(box, alive,
                 [tag |-> "object", id |-> id, meta |-> encode_object_meta(meta)]),
   sent |-> FALSE]

\* send_chunk, send_object, send_done, send_error: the mailbox afterwards.
\* send_chunk and send_object return true whatever send_and_clear answered.
send_chunk(box, alive, id, bytes) ==
  [mailbox |-> send_and_clear(box, alive, [tag |-> "chunk", id |-> id, data |-> bytes]),
   sent |-> TRUE]
send_object(box, alive, id, meta) ==
  [mailbox |-> send_and_clear(box, alive,
                 [tag |-> "object", id |-> id, meta |-> encode_object_meta(meta)]),
   sent |-> TRUE]
send_done(box, alive, id) == send_and_clear(box, alive, [tag |-> "done", id |-> id])
send_error(box, alive, id, msg) ==
  send_and_clear(box, alive, [tag |-> "error", id |-> id, msg |-> msg])

\* JoinHandle::abort(): a task suspended at an await is cancelled there and never
\* polled again; a task that is being polled runs on until its next await that
\* suspends; a task that has ended is left as it is.
handle_abort(t) ==
  IF t.pc \in {"get_wait", "next_wait"} THEN [t EXCEPT !.pc = "cancelled"]
  ELSE IF t.pc \in {"exited", "cancelled", "none"} THEN t
  ELSE [t EXCEPT !.aborted = TRUE]

\* Mutant: the handle is removed and dropped without abort(): the task is detached.
cancel_without_abort(registry, tasks, id) ==
  IF id \in DOMAIN registry
    THEN [registry |-> [k \in DOMAIN registry \ {id} |-> registry[k]],
          tasks |-> tasks, result |-> "ok"]
    ELSE [registry |-> registry, tasks |-> tasks, result |-> "ok"]

\* Mutant: an id the registry does not hold is an error.
cancel_strict(registry, tasks, id) ==
  IF id \in DOMAIN registry
    THEN [registry |-> [k \in DOMAIN registry \ {id} |-> registry[k]],
          tasks |-> [tasks EXCEPT ![registry[id]] =
                       IF @.pc \in {"get_wait", "next_wait"} THEN [@ EXCEPT !.pc = "cancelled"]
                       ELSE IF @.pc \in {"exited", "cancelled", "none"} THEN @
                       ELSE [@ EXCEPT !.aborted = TRUE]],
          result |-> "ok"]
    ELSE [registry |-> registry, tasks |-> tasks, result |-> "not_found"]

\* Mutant: the handle is aborted through the map and its entry is left there.
cancel_abort_only(registry, tasks, id) ==
  IF id \in DOMAIN registry
    THEN [registry |-> registry,
          tasks |-> [tasks EXCEPT ![registry[id]] =
                       IF @.pc \in {"get_wait", "next_wait"} THEN [@ EXCEPT !.pc = "cancelled"]
                       ELSE IF @.pc \in {"exited", "cancelled", "none"} THEN @
                       ELSE [@ EXCEPT !.aborted = TRUE]],
          result |-> "ok"]
    ELSE [registry |-> registry, tasks |-> tasks, result |-> "ok"]

\* Mutant: the whole registry is drained and every handle in it aborted.
cancel_all(registry, tasks, id) ==
  IF id \in DOMAIN registry
    THEN [registry |-> << >>,
          tasks |-> [h \in DOMAIN tasks |->
                       IF \E k \in DOMAIN registry : registry[k] = h
                         THEN (IF tasks[h].pc \in {"get_wait", "next_wait"}
                                 THEN [tasks[h] EXCEPT !.pc = "cancelled"]
                               ELSE IF tasks[h].pc \in {"exited", "cancelled", "none"}
                                 THEN tasks[h]
                               ELSE [tasks[h] EXCEPT !.aborted = TRUE])
                         ELSE tasks[h]],
          result |-> "ok"]
    ELSE [registry |-> registry, tasks |-> tasks, result |-> "ok"]

\* cancel_download_stream(stream_id): the registry and the tasks afterwards.
cancel_download_stream(registry, tasks, id) ==
  IF id \in DOMAIN registry
    THEN [registry |-> remove(registry, id),
          tasks |-> [tasks EXCEPT ![registry[id]] = handle_abort(@)],
          result |-> "ok"]
    ELSE [registry |-> registry, tasks |-> tasks, result |-> "ok"]

InitStream ==
  /\ nstreams = 0
  /\ backend = [id \in StreamIds |-> [get |-> TRUE, items |-> << >>]]
  /\ task = [id \in StreamIds |-> NoTask]
  /\ STREAM_REGISTRY = << >>
  /\ LIST_REGISTRY = << >>
  /\ mailbox = [id \in StreamIds |-> << >>]
  /\ receiverAlive = [id \in StreamIds |-> TRUE]

\* Mutant: the call awaits store.get itself and reports its failure to the caller.
start_download_stream_sync(stream_id) ==
  /\ nstreams < Cardinality(StreamIds)
  /\ LET h == StreamId(nstreams + 1) IN
     \E get \in BOOLEAN, items \in Sources("download") :
       /\ (~get => items = << >>)
       /\ nstreams' = nstreams + 1
       /\ backend' = [backend EXCEPT ![h] = [get |-> get, items |-> items]]
       /\ task' = [task EXCEPT ![h] =
                     [kind |-> "download", pc |-> IF get THEN "next" ELSE "exited",
                      pos |-> 0, aborted |-> FALSE, sid |-> stream_id]]
       /\ STREAM_REGISTRY' = IF get THEN [k \in DOMAIN STREAM_REGISTRY \cup {stream_id} |->
                                            IF k = stream_id THEN h ELSE STREAM_REGISTRY[k]]
                             ELSE STREAM_REGISTRY
       /\ ret' = IF get
                   THEN [op |-> "start_download_stream", result |-> "ok", value |-> stream_id]
                   ELSE [op |-> "start_download_stream", result |-> "get failed", value |-> ""]
       /\ UNCHANGED <<LIST_REGISTRY, mailbox, receiverAlive, uploadVars, opsVars>>

\* start_download_stream with stream_id the value Uuid::new_v4() gave: spawn the
\* task (the h-th the runtime runs), register its handle under stream_id, return
\* {:ok, stream_id}.
start_download_stream(stream_id) ==
  /\ nstreams < Cardinality(StreamIds)
  /\ LET h == StreamId(nstreams + 1) IN
     \E get \in BOOLEAN, items \in Sources("download") :
       /\ (~get => items = << >>)
       /\ nstreams' = nstreams + 1
       /\ backend' = [backend EXCEPT ![h] = [get |-> get, items |-> items]]
       /\ task' = [task EXCEPT ![h] =
                     [kind |-> "download", pc |-> "get", pos |-> 0, aborted |-> FALSE,
                      sid |-> stream_id]]
       /\ STREAM_REGISTRY' = insert(STREAM_REGISTRY, stream_id, h)
       /\ ret' = [op |-> "start_download_stream", result |-> "ok", value |-> stream_id]
       /\ UNCHANGED <<LIST_REGISTRY, mailbox, receiverAlive, uploadVars, opsVars>>

\* start_list_stream: store.list() hands out the stream at once, so the task
\* starts at its first stream.next().await.
start_list_stream(stream_id) ==
  /\ nstreams < Cardinality(StreamIds)
  /\ LET h == StreamId(nstreams + 1) IN
     \E items \in Sources("list") :
       /\ nstreams' = nstreams + 1
       /\ backend' = [backend EXCEPT ![h] = [get |-> TRUE, items |-> items]]
       /\ task' = [task EXCEPT ![h] =
                     [kind |-> "list", pc |-> "next", pos |-> 0, aborted |-> FALSE,
                      sid |-> stream_id]]
       /\ LIST_REGISTRY' = insert(LIST_REGISTRY, stream_id, h)
       /\ ret' = [op |-> "start_list_stream", result |-> "ok", value |-> stream_id]
       /\ UNCHANGED <<STREAM_REGISTRY, mailbox, receiverAlive, uploadVars, opsVars>>

\* The calls with a fresh id, as Uuid::new_v4() gives in practice.
StartDownloadStream == start_download_stream(StreamId(nstreams + 1))
StartListStream == start_list_stream(StreamId(nstreams + 1))

\* The calls with whatever 128-bit value Uuid::new_v4() may give: nothing in the
\* code excludes one that a registered stream already has.
StartDownloadStreamAnyId == \E stream_id \in StreamIds : start_download_stream(stream_id)
StartListStreamAnyId == \E stream_id \in StreamIds : start_list_stream(stream_id)

CancelDownloadStream(id) ==
  LET r == cancel_download_stream(STREAM_REGISTRY, task, id) IN
  /\ STREAM_REGISTRY' = r.registry
  /\ task' = r.tasks
  /\ ret' = [op |-> "cancel_download_stream", result |-> r.result, value |-> ""]
  /\ UNCHANGED <<nstreams, backend, LIST_REGISTRY, mailbox, receiverAlive, uploadVars, opsVars>>

TaskFrame == UNCHANGED <<nstreams, backend, STREAM_REGISTRY, LIST_REGISTRY,
                         receiverAlive, uploadVars, opsVars, ret>>

\* An await of the task that does not complete at once: the task is suspended,
\* and if its abort was requested it is cancelled here.
Suspend(id, waiting) ==
  task' = [task EXCEPT ![id].pc = IF task[id].aborted THEN "cancelled" ELSE waiting]

\* store.get(&path_obj).await has its result.
GotResult(id) ==
  task' = [task EXCEPT ![id].pc = IF backend[id].get THEN "next" ELSE "send_error"]

\* stream.next().await has its result: Some(Ok(..)), Some(Err(..)) or None.
Pulled(id) ==
  LET t == task[id] items == backend[id].items IN
  IF t.pos < Len(items)
    THEN task' = [task EXCEPT ![id].pos = t.pos + 1,
                              ![id].pc = IF items[t.pos + 1].ok THEN "send"
                                         ELSE "send_error"]
    ELSE task' = [task EXCEPT ![id].pc = "send_done"]

\* let result = store.get(&path_obj).await
TaskGet(id) ==
  /\ task[id].pc = "get"
  /\ \E suspends \in BOOLEAN :
       IF suspends THEN Suspend(id, "get_wait") ELSE GotResult(id)
  /\ UNCHANGED mailbox /\ TaskFrame

TaskGetWake(id) ==
  /\ task[id].pc = "get_wait"
  /\ GotResult(id)
  /\ UNCHANGED mailbox /\ TaskFrame

\* while let Some(..) = stream.next().await
TaskNext(id) ==
  /\ task[id].pc = "next"
  /\ \E suspends \in BOOLEAN :
       IF suspends THEN Suspend(id, "next_wait") ELSE Pulled(id)
  /\ UNCHANGED mailbox /\ TaskFrame

TaskNextWake(id) ==
  /\ task[id].pc = "next_wait"
  /\ Pulled(id)
  /\ UNCHANGED mailbox /\ TaskFrame

\* Ok(bytes) => if !send_chunk(..) { return }   (Ok(meta), send_object for a list)
TaskSend(id) ==
  /\ task[id].pc = "send"
  /\ LET item == backend[id].items[task[id].pos]
         r == IF task[id].kind = "download"
                THEN send_chunk(mailbox[id], receiverAlive[id], task[id].sid, item.bytes)
                ELSE send_object(mailbox[id], receiverAlive[id], task[id].sid, item.meta)
     IN  /\ mailbox' = [mailbox EXCEPT ![id] = r.mailbox]
         /\ task' = [task EXCEPT ![id].pc = IF r.sent THEN "next" ELSE "exited"]
  /\ TaskFrame

\* Mutant: the return after send_error is missing, the loop goes on.
TaskSendError_noreturn(id) ==
  /\ task[id].pc = "send_error"
  /\ mailbox' = [mailbox EXCEPT ![id] =
                   send_and_clear(@, receiverAlive[id],
                                  [tag |-> "error", id |-> task[id].sid, msg |-> "backend error"])]
  /\ task' = [task EXCEPT ![id].pc = "next"]
  /\ UNCHANGED <<nstreams, backend, STREAM_REGISTRY, LIST_REGISTRY,
                 receiverAlive, opened, buffer, multipart, calls, proc, mpLock, ret, opsVars>>

\* Err(e) => { send_error(..); return }, for the get and for an element
TaskSendError(id) ==
  /\ task[id].pc = "send_error"
  /\ LET msg == IF task[id].pos = 0 THEN "get failed"
                ELSE backend[id].items[task[id].pos].err
     IN  mailbox' = [mailbox EXCEPT ![id] = send_error(@, receiverAlive[id], task[id].sid, msg)]
  /\ task' = [task EXCEPT ![id].pc = "exited"]
  /\ TaskFrame

\* Mutant: the task ends after the loop without sending done.
TaskSendDone_silent(id) ==
  /\ task[id].pc = "send_done"
  /\ task' = [task EXCEPT ![id].pc = "exited"]
  /\ UNCHANGED <<nstreams, backend, STREAM_REGISTRY, LIST_REGISTRY, mailbox,
                 receiverAlive, opened, buffer, multipart, calls, proc, mpLock, ret, opsVars>>

\* send_done(..) after the loop; the task ends
TaskSendDone(id) ==
  /\ task[id].pc = "send_done"
  /\ mailbox' = [mailbox EXCEPT ![id] = send_done(@, receiverAlive[id], task[id].sid)]
  /\ task' = [task EXCEPT ![id].pc = "exited"]
  /\ TaskFrame

\* The receiving process of a running stream dies; it stays dead.
ReceiverDies(id) ==
  /\ receiverAlive[id]
  /\ task[id].pc \notin {"none", "exited", "cancelled"}
  /\ receiverAlive' = [receiverAlive EXCEPT ![id] = FALSE]
  /\ UNCHANGED <<nstreams, backend, task, STREAM_REGISTRY, LIST_REGISTRY, mailbox,
                 uploadVars, opsVars, ret>>

\* ------------------------------------------------- single-shot operations
\* (errors.rs, operations.rs).  The backend holds objects at two paths; the
\* content of an object is a number, NoObject where there is none.
Paths == {"a", "b"}
Contents == {1, 2}
NoObject == 0

\* The variants of object_store::Error.
ErrorKinds ==
  {"Generic", "NotFound", "InvalidPath", "JoinError", "NotSupported", "AlreadyExists",
   "Precondition", "NotModified", "NotImplemented", "PermissionDenied",
   "Unauthenticated", "UnknownConfigurationKey"}

\* Mutant: the arm for Precondition is missing.
map_error_no_precondition(error) ==
  CASE error = "NotFound" -> "not_found"
    [] error = "AlreadyExists" -> "already_exists"
    [] error = "NotModified" -> "not_modified"
    [] error = "NotSupported" -> "not_supported"
    [] error = "PermissionDenied" -> "permission_denied"
    [] OTHER -> "error"

\* map_error: match error { .. }
map_error(error) ==
  CASE error = "NotFound" -> "not_found"
    [] error = "AlreadyExists" -> "already_exists"
    [] error = "Precondition" -> "precondition_failed"
    [] error = "NotModified" -> "not_modified"
    [] error = "NotSupported" -> "not_supported"
    [] error = "PermissionDenied" -> "permission_denied"
    [] OTHER -> "error"

\* format!("{}", e): the error's Display text
Display(e) == "Object store error: " \o e

\* What the elements of a delete stream and the backend calls of a rename may
\* answer: "ok" for Ok(_), an error kind for Err(e).
DeleteOutcomes == {"ok", "NotFound", "Generic"}

\* Mutant: the loop stops at the first Err.
RECURSIVE delete_many_failfast(_, _, _, _)
delete_many_failfast(results, idx, succeeded, failed) ==
  IF idx = Len(results) THEN <<succeeded, failed>>
  ELSE IF results[idx + 1] = "ok"
         THEN delete_many_failfast(results, idx + 1, succeeded + 1, failed)
         ELSE <<succeeded, Append(failed, <<idx, Display(results[idx + 1])>>)>>

\* delete_many: for (idx, result) in results.into_iter().enumerate() { .. },
\* from idx on, with succeeded and failed as they stand.
RECURSIVE delete_many_loop(_, _, _, _)
delete_many_loop(results, idx, succeeded, failed) ==
  IF idx = Len(results) THEN <<succeeded, failed>>
  ELSE IF results[idx + 1] = "ok"
         THEN delete_many_loop(results, idx + 1, succeeded + 1, failed)
         ELSE delete_many_loop(results, idx + 1, succeeded,
                               Append(failed, <<idx, Display(results[idx + 1])>>))

\* delete_many: what it returns for the results the delete stream yielded
delete_many(results) == delete_many_loop(results, 0, 0, << >>)

\* What copy_if_not_exists(from, to) may answer on a backend where it is atomic:
\* it copies only if from exists and to does not, and may fail for other reasons.
CopyOutcomes(st, from, to) ==
  IF st[from] = NoObject THEN {"NotFound", "Generic"}
  ELSE IF st[to] # NoObject THEN {"AlreadyExists", "Generic"}
  ELSE {"ok", "NotSupported", "Generic"}

\* rename_if_not_exists(from, to) when the backend answers copy to the
\* copy_if_not_exists and del to the delete: the store afterwards and the result.
rename_if_not_exists(st, from, to, copy, del) ==
  IF copy = "ok"
    THEN LET copied == [st EXCEPT ![to] = st[from]] IN
         IF del = "ok"
           THEN [store |-> [copied EXCEPT ![from] = NoObject], result |-> "ok"]
           ELSE [store |-> copied, result |-> map_error(del)]
    ELSE [store |-> st, result |-> map_error(copy)]

InitOps ==
  /\ store = [p \in Paths |-> NoObject]
  /\ opcall = [op |-> "none", arg |-> << >>, result |-> "ok"]

\* put(path, data)
Put(path, data) ==
  /\ \E outcome \in {"ok", "Generic"} :
       /\ store' = IF outcome = "ok" THEN [store EXCEPT ![path] = data] ELSE store
       /\ opcall' = [op |-> "put", arg |-> <<path, data>>,
                     result |-> IF outcome = "ok" THEN "ok" ELSE map_error(outcome)]
  /\ UNCHANGED <<uploadVars, streamVars, ret>>

\* An operation got the error e from the backend and classifies it.
MapError(e) ==
  /\ opcall' = [op |-> "map_error", arg |-> e, result |-> map_error(e)]
  /\ UNCHANGED <<store, uploadVars, streamVars, ret>>

\* delete_many(paths): the delete stream yields one result per path; a path
\* whose result is Ok holds no object afterwards.
DeleteMany ==
  /\ \E n \in 0..MaxPaths :
       \E paths \in [1..n -> Paths], results \in [1..n -> DeleteOutcomes] :
         /\ store' = [p \in Paths |->
                        IF \E i \in 1..n : paths[i] = p /\ results[i] = "ok"
                          THEN NoObject ELSE store[p]]
         /\ opcall' = [op |-> "delete_many", arg |-> results,
                       result |-> delete_many(results)]
  /\ UNCHANGED <<uploadVars, streamVars, ret>>

\* rename_if_not_exists(from, to)
RenameIfNotExists(from, to) ==
  /\ \E copy \in CopyOutcomes(store, from, to), del \in DeleteOutcomes :
       LET r == rename_if_not_exists(store, from, to, copy, del) IN
       /\ store' = r.store
       /\ opcall' = [op |-> "rename_if_not_exists",
                     arg |-> [from |-> from, to |-> to, before |-> store,
                              copy |-> copy, del |-> del],
                     result |-> r.result]
  /\ UNCHANGED <<uploadVars, streamVars, ret>>

Init ==
  /\ InitUpload
  /\ InitStream
  /\ InitOps
  /\ ret = [op |-> "none", result |-> "ok", value |-> ""]

\* One caller working on one upload session, one call after another.
NextUpload ==
  \/ StartUploadSession("sA")
  \/ UploadChunk("sA")
  \/ CompleteUpload("sA")
  \/ AbortUpload("sA")

SpecUpload == Init /\ [][NextUpload]_vars

\* The streams: callers start and cancel, tasks run, receivers may die.
NextStream ==
  \/ StartDownloadStream
  \/ StartListStream
  \/ \E id \in CancelIds : CancelDownloadStream(id)
  \/ \E id \in StreamIds :
       \/ TaskGet(id)
       \/ TaskGetWake(id)
       \/ TaskNext(id)
       \/ TaskNextWake(id)
       \/ TaskSend(id)
       \/ TaskSendError(id)
       \/ TaskSendDone(id)
       \/ ReceiverDies(id)

SpecStream == Init /\ [][NextStream]_vars

\* A step of the task of stream id.
TaskStep(id) ==
  \/ TaskGet(id)
  \/ TaskGetWake(id)
  \/ TaskNext(id)
  \/ TaskNextWake(id)
  \/ TaskSend(id)
  \/ TaskSendError(id)
  \/ TaskSendDone(id)

\* The streams under fair scheduling: the runtime goes on polling every spawned
\* task that can run, and a backend call that was awaited gets its result.
SpecStreamFair == SpecStream /\ \A id \in StreamIds : WF_vars(TaskStep(id))

\* The streams when the generated ids are not assumed to differ.
NextCollide ==
  \/ StartDownloadStreamAnyId
  \/ StartListStreamAnyId
  \/ \E id \in CancelIds : CancelDownloadStream(id)
  \/ \E id \in StreamIds :
       \/ TaskGet(id)
       \/ TaskGetWake(id)
       \/ TaskNext(id)
       \/ TaskNextWake(id)
       \/ TaskSend(id)
       \/ TaskSendError(id)
       \/ TaskSendDone(id)
       \/ ReceiverDies(id)

SpecCollide == Init /\ [][NextCollide]_vars

\* Two callers on one upload session, their calls running at the same time.
NextConc ==
  \/ StartUploadSession("sA")
  \/ \E p \in Callers :
       \/ BeginUploadChunk(p, "sA")
       \/ BeginCompleteUpload(p, "sA")
       \/ BeginAbortUpload(p, "sA")
       \/ BufAppend(p)
       \/ BufCheck(p)
       \/ BufDrain(p)
       \/ MpLock(p)
       \/ PutPartCall(p)
       \/ CompleteCall(p)
       \/ AbortCall(p)

SpecConc == Init /\ [][NextConc]_vars

\* Two sessions, each used by a caller of its own, their calls running at the
\* same time.
SessionOf(p) == IF p = "p1" THEN "sA" ELSE "sB"
NextTwoSessions ==
  \/ \E s \in UploadSessions : StartUploadSession(s)
  \/ \E p \in Callers :
       \/ BeginUploadChunk(p, SessionOf(p))
       \/ BeginCompleteUpload(p, SessionOf(p))
       \/ BeginAbortUpload(p, SessionOf(p))
       \/ BufAppend(p)
       \/ BufCheck(p)
       \/ BufDrain(p)
       \/ MpLock(p)
       \/ PutPartCall(p)
       \/ CompleteCall(p)
       \/ AbortCall(p)

SpecTwoSessions == Init /\ [][NextTwoSessions]_vars

\* The single-shot operations on one store.
NextOps ==
  \/ \E path \in Paths, data \in Contents : Put(path, data)
  \/ \E e \in ErrorKinds : MapError(e)
  \/ DeleteMany
  \/ \E from \in Paths, to \in Paths : RenameIfNotExists(from, to)

SpecOps == Init /\ [][NextOps]_vars

\* ================================================================ claims
\* ---------------------------------------------------------- upload session
\* The concatenation of a sequence of byte sequences, and a sequence's last element.
RECURSIVE Flatten(_)
Flatten(ss) == IF ss = << >> THEN << >> ELSE Head(ss) \o Flatten(Tail(ss))
Last(seq) == seq[Len(seq)]

IsPart(c) == c.op = "put_part"
\* The payloads of the put_part calls the backend of s received, in upload order.
Parts(s) ==
  LET sel == SelectSeq(multipart[s], IsPart) IN [i \in 1..Len(sel) |-> sel[i].data]
\* The chunks handed to s, in call order.
Chunks(s) == ChunkArgs(calls[s])
\* calls[s] is upload_chunk calls followed by one complete_upload.
ChunksThenComplete(s) ==
  /\ calls[s] # << >>
  /\ Last(calls[s]).op = "complete_upload"
  /\ \A i \in 1..(Len(calls[s]) - 1) : calls[s][i].op = "upload_chunk"
AllOk(s) == \A i \in 1..Len(calls[s]) : calls[s][i].result = "ok"
\* complete_upload or abort_upload has finished on s.
Terminated(s) ==
  \E i \in 1..Len(calls[s]) : calls[s][i].op \in {"complete_upload", "abort_upload"}
\* This step is a call of one of ops on s.
CallStep(s, ops) == calls'[s] # calls[s] /\ Last(calls'[s]).op \in ops

\* C1: after successful upload_chunk calls followed by a successful
\* complete_upload, the parts put to the backend, concatenated in upload order,
\* are the chunks concatenated in call order (so as many bytes are uploaded as
\* were handed in).
C1_PartsAreTheChunks ==
  \A s \in UploadSessions :
    (ChunksThenComplete(s) /\ AllOk(s)) =>
       /\ Flatten(Parts(s)) = Flatten(Chunks(s))
       /\ SumLen(Parts(s)) = SumLen(Chunks(s))
       /\ \A i \in 1..Len(multipart[s]) : multipart[s][i].ok

\* C1 witness: such a run with three chunks, a part uploaded at the threshold and
\* a shorter final part uploaded by complete_upload.
C1_Witness ==
  /\ ChunksThenComplete("sA") /\ AllOk("sA")
  /\ Len(Chunks("sA")) = 3
  /\ Len(Parts("sA")) = 2
  /\ Len(Parts("sA")[2]) < part_size

\* C2: for upload_chunk calls followed by complete_upload, every part put to the
\* backend except possibly the last has at least part_size bytes; before
\* complete_upload is called every part has.
C2_PartsReachThreshold ==
  \A s \in UploadSessions :
    /\ ChunksThenComplete(s) =>
         \A i \in 1..(Len(Parts(s)) - 1) : Len(Parts(s)[i]) >= part_size
    /\ (\A i \in 1..Len(calls[s]) : calls[s][i].op = "upload_chunk") =>
         \A i \in 1..Len(Parts(s)) : Len(Parts(s)[i]) >= part_size

\* C2 witness: two parts of at least part_size bytes, then a shorter last part.
C2_Witness ==
  /\ ChunksThenComplete("sA")
  /\ Len(Parts("sA")) = 3
  /\ Len(Parts("sA")[3]) < part_size

\* C8 (as claimed): an upload_chunk call on a session on which complete_upload or
\* abort_upload has finished fails with InvalidSessionState and changes neither
\* the buffer nor what the backend received.
C8_ChunkAfterEndRejected ==
  [][\A s \in UploadSessions :
       (Terminated(s) /\ CallStep(s, {"upload_chunk"})) =>
          /\ Last(calls'[s]).result = "InvalidSessionState"
          /\ buffer'[s] = buffer[s]
          /\ multipart'[s] = multipart[s]]_vars

\* C9 (as claimed): a complete_upload or abort_upload call on a session on which
\* one of them has already finished fails with an invalid-state condition and
\* makes no call on the backend.
C9_SecondEndRejected ==
  [][\A s \in UploadSessions :
       (Terminated(s) /\ CallStep(s, {"complete_upload", "abort_upload"})) =>
          /\ Last(calls'[s]).result = "InvalidSessionState"
          /\ multipart'[s] = multipart[s]]_vars

\* C10: an upload_chunk call that brings the buffer to part_size bytes or more
\* hands the whole buffer (old content, then the chunk) to the backend as exactly
\* one part and leaves the buffer empty when it returns ok; one that keeps the
\* buffer below part_size uploads nothing, returns ok and leaves the old content
\* followed by the chunk in the buffer.
C10_FlushAtThreshold ==
  [][\A s \in UploadSessions :
       CallStep(s, {"upload_chunk"}) =>
         LET call == Last(calls'[s])
             whole == buffer[s] \o call.arg
         IN  IF Len(buffer[s]) + Len(call.arg) >= part_size
               THEN /\ multipart'[s] =
                         Append(multipart[s], [op |-> "put_part", data |-> whole,
                                               ok |-> (call.result = "ok")])
                    /\ (call.result = "ok" => buffer'[s] = << >>)
               ELSE /\ multipart'[s] = multipart[s]
                    /\ buffer'[s] = whole
                    /\ call.result = "ok"]_vars

\* C10 witness: an upload_chunk call has returned ok after uploading a part made
\* of earlier buffer content and its own chunk, longer than part_size.
C10_Witness ==
  /\ ret.op = "upload_chunk" /\ ret.result = "ok"
  /\ buffer["sA"] = << >>
  /\ multipart["sA"] # << >>
  /\ Last(multipart["sA"]).op = "put_part"
  /\ Len(Last(multipart["sA"]).data) > part_size
  /\ Len(Last(multipart["sA"]).data) > Len(Last(calls["sA"]).arg)
  /\ Len(Last(calls["sA"]).arg) < part_size

\* ------------------------------------------------------------------ streams
IsTerminal(m) == m.tag \in {"done", "error"}
\* Stream id met no backend error: the get and every element are Ok.
NoBackendError(id) ==
  /\ backend[id].get
  /\ \A i \in 1..Len(backend[id].items) : backend[id].items[i].ok
\* cancel_download_stream(id) has returned for download stream id while its task
\* had not ended.
CancelledActive(id) ==
  /\ task[id].kind = "download"
  /\ id \notin DOMAIN STREAM_REGISTRY
  /\ (task[id].aborted \/ task[id].pc = "cancelled")
\* This step delivers a chunk message for id.
ChunkDelivered(id) ==
  /\ Len(mailbox'[id]) > Len(mailbox[id])
  /\ Last(mailbox'[id]).tag = "chunk"

\* C3: the messages delivered for a stream id hold at most one terminal message
\* (done or error), and nothing follows it.
C3_TerminalIsLast ==
  \A id \in StreamIds :
    \A i \in 1..Len(mailbox[id]) :
      IsTerminal(mailbox[id][i]) => i = Len(mailbox[id])

\* C3 witness: a download whose abort was requested while its task was being
\* polled has still delivered chunks and then done.
C3_Witness ==
  \E id \in StreamIds :
    /\ task[id].aborted /\ task[id].pc = "exited"
    /\ Len(mailbox[id]) >= 3
    /\ Last(mailbox[id]).tag = "done"

\* C4: a download that was not cancelled, met no backend error and ended, its
\* receiver alive, has delivered one chunk message per element of the backend's
\* byte stream, in the stream's order and with the element's bytes, then done.
C4_DownloadDeliversContent ==
  \A id \in StreamIds :
    (/\ task[id].kind = "download" /\ task[id].pc = "exited"
     /\ id \in DOMAIN STREAM_REGISTRY
     /\ NoBackendError(id) /\ receiverAlive[id]) =>
       LET n == Len(backend[id].items) IN
       /\ Len(mailbox[id]) = n + 1
       /\ \A i \in 1..n :
            /\ mailbox[id][i].tag = "chunk"
            /\ mailbox[id][i].id = id
            /\ mailbox[id][i].data = backend[id].items[i].bytes
       /\ mailbox[id][n + 1] = [tag |-> "done", id |-> id]

\* C4 witness: such a download over a stream of MaxElems chunks.
C4_Witness ==
  \E id \in StreamIds :
    /\ task[id].kind = "download" /\ task[id].pc = "exited"
    /\ id \in DOMAIN STREAM_REGISTRY
    /\ NoBackendError(id) /\ receiverAlive[id]
    /\ Len(backend[id].items) = MaxElems

\* C5: a list stream over N distinct keys that met no backend error and ended,
\* its receiver alive, has delivered exactly N object messages, the i-th for the
\* i-th key of the listing, then one done.
C5_ListDeliversEveryKey ==
  \A id \in StreamIds :
    (/\ task[id].kind = "list" /\ task[id].pc = "exited"
     /\ NoBackendError(id) /\ receiverAlive[id]) =>
       LET n == Len(backend[id].items) IN
       /\ Len(mailbox[id]) = n + 1
       /\ \A i \in 1..n :
            /\ mailbox[id][i].tag = "object"
            /\ mailbox[id][i].id = id
            /\ mailbox[id][i].meta["location"] = backend[id].items[i].meta.location
       /\ Cardinality({mailbox[id][i].meta["location"] : i \in 1..n}) = n
       /\ mailbox[id][n + 1] = [tag |-> "done", id |-> id]

\* C5 witness: such a listing of MaxElems keys.
C5_Witness ==
  \E id \in StreamIds :
    /\ task[id].kind = "list" /\ task[id].pc = "exited"
    /\ NoBackendError(id) /\ receiverAlive[id]
    /\ Len(backend[id].items) = MaxElems
    /\ Len(mailbox[id]) = MaxElems + 1

\* C6 (as claimed): once cancel_download_stream(id) has returned for an active
\* download, no further chunk message bearing id is delivered.
C6_NoChunkAfterCancel ==
  [][\A id \in StreamIds : CancelledActive(id) => ~ChunkDelivered(id)]_vars

\* C6 (amended): cancel_download_stream(id) on an active download stops a task
\* that is suspended at an await at once, and a task that is being polled at its
\* next await that suspends; a stopped task delivers nothing and takes no step.
\* Chunks delivered after the cancel come only from a task that was being polled
\* when its abort was requested and has not suspended since.
C6_NoChunkOnceSuspended ==
  [][\A id \in StreamIds :
       /\ (id \in DOMAIN STREAM_REGISTRY /\ id \notin DOMAIN STREAM_REGISTRY'
           /\ task[id].pc \in {"get_wait", "next_wait"})
            => task'[id].pc = "cancelled"
       /\ (id \in DOMAIN STREAM_REGISTRY /\ id \notin DOMAIN STREAM_REGISTRY'
           /\ task[id].pc \in {"get", "next", "send", "send_error", "send_done"})
            => task'[id].aborted
       /\ task[id].pc = "cancelled"
            => (mailbox'[id] = mailbox[id] /\ task'[id] = task[id])
       /\ task'[id].aborted => task'[id].pc \notin {"get_wait", "next_wait"}
       /\ (CancelledActive(id) /\ ChunkDelivered(id))
            => (task[id].aborted /\ task[id].pc = "send")]_vars

\* C6 witness: a download that had delivered a chunk was cancelled while its task
\* was suspended, and stopped there.
C6_Witness ==
  \E id \in StreamIds :
    /\ CancelledActive(id)
    /\ task[id].pc = "cancelled" /\ ~task[id].aborted
    /\ Len(mailbox[id]) >= 1
    /\ task[id].pos < Len(backend[id].items)

\* C7: cancel_download_stream returns ok for every id: one never registered, one
\* already cancelled, one whose stream has ended.  On an id the registry does not
\* hold it changes nothing, and after a cancel the registry does not hold the id,
\* so a second cancel of an id returns what the first returned and leaves the
\* state the first left.
C7_CancelIdempotent ==
  /\ ret.op = "cancel_download_stream" => ret.result = "ok"
  /\ \A id \in CancelIds :
       LET once == cancel_download_stream(STREAM_REGISTRY, task, id)
           twice == cancel_download_stream(once.registry, once.tasks, id)
       IN  /\ once.result = "ok"
           /\ twice.result = once.result
           /\ twice.registry = once.registry
           /\ twice.tasks = once.tasks
           /\ id \notin DOMAIN once.registry
           /\ id \notin DOMAIN STREAM_REGISTRY =>
                (once.registry = STREAM_REGISTRY /\ once.tasks = task)

\* C7 witness: cancel_download_stream has just returned ok; one download had
\* ended by itself before it was cancelled, another was cancelled while active.
C7_Witness ==
  /\ ret.op = "cancel_download_stream" /\ ret.result = "ok"
  /\ \E id \in StreamIds :
       /\ task[id].kind = "download" /\ task[id].pc = "exited" /\ ~task[id].aborted
       /\ id \notin DOMAIN STREAM_REGISTRY
  /\ \E id \in StreamIds :
       /\ task[id].pc = "cancelled"
       /\ id \notin DOMAIN STREAM_REGISTRY

\* --------------------------------------------- upload session, C11 to C14
\* The calls on s are: upload_chunk of 3 MiB, upload_chunk of 4 MiB,
\* complete_upload, every one returning ok.
ThreeThenFourThenComplete(s) ==
  /\ Len(calls[s]) = 3
  /\ calls[s][1].op = "upload_chunk" /\ Len(calls[s][1].arg) = 3
  /\ calls[s][2].op = "upload_chunk" /\ Len(calls[s][2].arg) = 4
  /\ calls[s][3].op = "complete_upload"
  /\ AllOk(s)
\* The calls the backend handle of s receives in this step.
NewBackendCalls(s) == SubSeq(multipart'[s], Len(multipart[s]) + 1, Len(multipart'[s]))

\* C11 (as claimed): with part_size 5 MiB, appending 3 MiB, then 4 MiB, then
\* complete_upload uploads exactly two parts, 7 MiB in all.
C11_TwoParts ==
  \A s \in UploadSessions :
    ThreeThenFourThenComplete(s) => (Len(Parts(s)) = 2 /\ SumLen(Parts(s)) = 7)

\* C11 (amended): with part_size 5 MiB, appending 3 MiB, then 4 MiB, then
\* complete_upload uploads exactly one part, of 7 MiB: the second upload_chunk
\* drains the whole buffer and complete_upload finds it empty.
C11_OnePart ==
  \A s \in UploadSessions :
    ThreeThenFourThenComplete(s) =>
      /\ Len(Parts(s)) = 1
      /\ Parts(s)[1] = calls[s][1].arg \o calls[s][2].arg
      /\ SumLen(Parts(s)) = 7
      /\ multipart[s][2] = [op |-> "complete", ok |-> TRUE]

\* C11 witness: the scenario has run.
C11_Witness == ThreeThenFourThenComplete("sA") /\ buffer["sA"] = << >>

\* C12: complete_upload on a non-empty buffer puts the buffer's bytes as exactly
\* one final part, however short; if that put_part fails it makes no further
\* backend call, otherwise it calls the backend's complete next; it returns ok
\* only if every backend call it made succeeded.
C12_FinalPartThenComplete ==
  [][\A s \in UploadSessions :
       (CallStep(s, {"complete_upload"}) /\ buffer[s] # << >>) =>
          LET new == NewBackendCalls(s)
              result == Last(calls'[s]).result
          IN  /\ Len(new) >= 1
              /\ new[1].op = "put_part" /\ new[1].data = buffer[s]
              /\ IF new[1].ok
                   THEN Len(new) = 2 /\ new[2].op = "complete"
                   ELSE Len(new) = 1
              /\ (result = "ok") <=> (\A i \in 1..Len(new) : new[i].ok)
              /\ buffer'[s] = << >>]_vars

\* C12 witness: complete_upload has returned ok after a final part shorter than
\* part_size that followed a part uploaded at the threshold.
C12_Witness ==
  /\ ret.op = "complete_upload" /\ ret.result = "ok"
  /\ Len(multipart["sA"]) = 3
  /\ multipart["sA"][2].op = "put_part"
  /\ Len(multipart["sA"][2].data) \in 1..(part_size - 1)
  /\ multipart["sA"][3].op = "complete"

\* C13: complete_upload on a session with an empty buffer and no part uploaded
\* puts no part, calls the backend's complete exactly once and returns ok exactly
\* if that call succeeded.
C13_EmptyComplete ==
  [][\A s \in UploadSessions :
       (CallStep(s, {"complete_upload"}) /\ buffer[s] = << >> /\ Parts(s) = << >>) =>
          LET new == NewBackendCalls(s) IN
          /\ Len(new) = 1
          /\ new[1].op = "complete"
          /\ (Last(calls'[s]).result = "ok") <=> new[1].ok
          /\ (Last(calls'[s]).result # "ok") =>
                Last(calls'[s]).result = "Failed to complete upload"]_vars

\* C13 witness: complete_upload was the first call on the session and returned ok.
C13_Witness ==
  /\ Len(calls["sA"]) = 1
  /\ calls["sA"][1] = [op |-> "complete_upload", arg |-> NoData, result |-> "ok"]
  /\ multipart["sA"] = <<[op |-> "complete", ok |-> TRUE]>>

\* C14 (as claimed): abort_upload calls the backend's abort whatever the buffer
\* holds and puts no part; once abort_upload has finished on a session, with ok
\* or with an error, no later call on the session reaches the backend.
C14_AbortIsTerminal ==
  [][\A s \in UploadSessions :
       /\ CallStep(s, {"abort_upload"}) =>
            (Len(NewBackendCalls(s)) = 1 /\ NewBackendCalls(s)[1].op = "abort")
       /\ (\E i \in 1..Len(calls[s]) : calls[s][i].op = "abort_upload") =>
            multipart'[s] = multipart[s]]_vars

\* Only upload_chunk calls have been made on s, finished or still running.
OnlyUploadChunk(s) ==
  /\ \A i \in 1..Len(calls[s]) : calls[s][i].op = "upload_chunk"
  /\ \A p \in Callers : proc[p].on = s => proc[p].op = "upload_chunk"

\* C15: upload_chunk calls that run at the same time on one session upload the
\* parts that the calls made one after another would upload: while only
\* upload_chunk has been called, every part handed to the backend holds at
\* least part_size bytes, so none is empty and none is below the threshold.
C15_NoShortPartUnderConcurrency ==
  \A s \in UploadSessions :
    OnlyUploadChunk(s) =>
      \A i \in 1..Len(multipart[s]) :
        multipart[s][i].op = "put_part" => Len(multipart[s][i].data) >= part_size

\* C16: the registries hold no entry whose task has exited: a task that ends
\* with done or with an error takes its id out of the registry.
C16_NoStaleEntry ==
  /\ \A id \in DOMAIN STREAM_REGISTRY : task[STREAM_REGISTRY[id]].pc # "exited"
  /\ \A id \in DOMAIN LIST_REGISTRY : task[LIST_REGISTRY[id]].pc # "exited"

\* C17: a task whose chunk or object message cannot be delivered, the receiver
\* being dead, ends at that send: it pulls no further element and sends no
\* terminal message.
C17_DeadReceiverEndsTask ==
  [][\A id \in StreamIds :
       (task[id].pc = "send" /\ ~receiverAlive[id] /\ task'[id].pc # "send")
         => task'[id].pc = "exited"]_vars

\* The error message a task sends for the failure it stands at.
ErrorMessageOf(id) ==
  [tag |-> "error", id |-> task[id].sid,
   msg |-> IF task[id].pos = 0 THEN "get failed" ELSE backend[id].items[task[id].pos].err]

\* C18: a task that got an error from the backend sends exactly one error
\* message and ends: it pulls no further element, sends no chunk, object or
\* done afterwards and does not retry; once ended it sends nothing more.
C18_ErrorEndsTask ==
  [][\A id \in StreamIds :
       /\ (task[id].pc = "send_error" /\ task'[id].pc # "send_error")
            => /\ task'[id].pc = "exited"
               /\ task'[id].pos = task[id].pos
               /\ mailbox'[id] = IF receiverAlive[id]
                                   THEN Append(mailbox[id], ErrorMessageOf(id))
                                   ELSE mailbox[id]
       /\ task[id].pc = "send_error" => mailbox'[id] \in {mailbox[id],
                                          Append(mailbox[id], ErrorMessageOf(id))}
       /\ task[id].pc = "exited"
            => task'[id] = task[id] /\ mailbox'[id] = mailbox[id]]_vars

\* A stream got a backend error at its first element with one more still to
\* come, and ended with the error message as its only message.
C18_Witness ==
  \E id \in StreamIds :
    /\ task[id].pc = "exited" /\ receiverAlive[id]
    /\ task[id].pos = 1 /\ Len(backend[id].items) = 2
    /\ ~backend[id].items[1].ok
    /\ mailbox[id] = <<[tag |-> "error", id |-> id, msg |-> "backend error"]>>

\* C19: a start call whose id the registry already holds fails with
\* DuplicateSession and leaves the registry, the entry and its handle, as it was.
C19_DuplicateIdRejected ==
  [][\A sid \in DOMAIN STREAM_REGISTRY :
       (nstreams' # nstreams /\ task'[StreamId(nstreams')].kind = "download"
          /\ task'[StreamId(nstreams')].sid = sid)
         => (ret'.result = "DuplicateSession" /\ STREAM_REGISTRY' = STREAM_REGISTRY)]_vars

\* A download whose backend failed, at the get or at an element.
BackendFailed(id) ==
  \/ ~backend[id].get
  \/ task[id].pos > 0 /\ ~backend[id].items[task[id].pos].ok

\* C20: start_download_stream returns {:ok, id} before any backend call: the
\* step that makes the call leaves the new task in front of its store.get, with
\* nothing delivered, and returns ok whatever the backend will answer; a download
\* that ended on a backend failure has told its live receiver so with an error
\* message for its id as the last message.
C20_StartReturnsAtOnce ==
  [][/\ ret'.op = "start_download_stream" => ret'.result = "ok"
     /\ (nstreams' # nstreams /\ ret'.op = "start_download_stream")
          => /\ ret'.value = task'[StreamId(nstreams')].sid
             /\ task'[StreamId(nstreams')].pc = "get"
             /\ task'[StreamId(nstreams')].pos = 0
             /\ mailbox'[StreamId(nstreams')] = << >>
     /\ \A id \in StreamIds :
          (task'[id].kind = "download" /\ task'[id].pc = "exited"
             /\ BackendFailed(id)' /\ receiverAlive'[id])
            => /\ mailbox'[id] # << >>
               /\ Last(mailbox'[id]).tag = "error"
               /\ Last(mailbox'[id]).id = task'[id].sid]_vars

\* The call returned ok for a download whose store.get then failed; the receiver
\* got the error message and nothing else.
C20_Witness ==
  \E id \in StreamIds :
    /\ task[id].kind = "download" /\ task[id].pc = "exited"
    /\ ~backend[id].get /\ receiverAlive[id]
    /\ mailbox[id] = <<[tag |-> "error", id |-> id, msg |-> "get failed"]>>

\* ----------------------------------------------------- streams, C21 to C23
\* C21: cancelling the id of an active listing takes the id out of the registry
\* and stops the listing's task, so that no further object message is delivered.
C21_ListCancelStops ==
  [][\A id \in StreamIds :
       (/\ CancelDownloadStream(id)
        /\ id \in DOMAIN LIST_REGISTRY
        /\ task[LIST_REGISTRY[id]].pc \notin {"exited", "cancelled"})
         => /\ id \notin DOMAIN LIST_REGISTRY'
            /\ (task'[LIST_REGISTRY[id]].pc = "cancelled"
                \/ task'[LIST_REGISTRY[id]].aborted)]_vars

\* C22: however cancel_download_stream(id) interleaves with the task of id
\* ending by itself, the call returns ok, the registry does not hold id after
\* it nor ever again, and the receiver sees at most one terminal message for
\* the session, with nothing after it.
C22_CancelRacesCompletion ==
  [][\A id \in StreamIds :
       /\ CancelDownloadStream(id)
            => (ret'.result = "ok" /\ id \notin DOMAIN STREAM_REGISTRY')
       /\ (task[id].kind = "download" /\ id \notin DOMAIN STREAM_REGISTRY)
            => id \notin DOMAIN STREAM_REGISTRY'
       /\ \A i \in 1..Len(mailbox'[id]) :
            IsTerminal(mailbox'[id][i]) => i = Len(mailbox'[id])
       /\ (mailbox[id] # << >> /\ IsTerminal(Last(mailbox[id])))
            => mailbox'[id] = mailbox[id]]_vars

\* C22 witness: the abort of a download was requested while its task was being
\* polled; the task ran on to its end and delivered its terminal message; the
\* cancel has returned ok and the registry does not hold the id.
C22_Witness ==
  /\ ret.op = "cancel_download_stream" /\ ret.result = "ok"
  /\ \E id \in StreamIds :
       /\ task[id].kind = "download" /\ task[id].aborted /\ task[id].pc = "exited"
       /\ id \notin DOMAIN STREAM_REGISTRY
       /\ mailbox[id] # << >> /\ IsTerminal(Last(mailbox[id]))

\* The task of id has ended in Done or Errored: it has exited and the last of
\* the messages delivered for id is the only terminal one.
EndedWithOneTerminal(id) ==
  /\ task[id].pc = "exited"
  /\ mailbox[id] # << >>
  /\ IsTerminal(Last(mailbox[id]))
  /\ Cardinality({i \in 1..Len(mailbox[id]) : IsTerminal(mailbox[id][i])}) = 1

\* C23: under fair scheduling a stream that was started ends, unless it is
\* cancelled or its receiver dies, in Done or Errored, with exactly one
\* terminal message delivered; a task that has ended takes no further step.
C23_StreamTerminates ==
  /\ \A id \in StreamIds :
       (task[id].kind # "none")
         ~> (\/ EndedWithOneTerminal(id)
             \/ ~receiverAlive[id]
             \/ task[id].aborted \/ task[id].pc = "cancelled")
  /\ [][\A id \in StreamIds :
          task[id].pc = "exited"
            => (task'[id] = task[id] /\ mailbox'[id] = mailbox[id])]_vars

\* C23 witness: a listing that was never cancelled, its receiver alive, has
\* pulled its two elements and ended with its one terminal message.
C23_Witness ==
  \E id \in StreamIds :
    /\ task[id].kind = "list" /\ EndedWithOneTerminal(id)
    /\ receiverAlive[id] /\ ~task[id].aborted
    /\ id \in DOMAIN LIST_REGISTRY
    /\ task[id].pos = MaxElems

\* ------------------------------------------- upload sessions, C24 and C25
\* The session the call caller p takes a step of is on.
StepSession(p) == IF proc[p].on # "none" THEN proc[p].on ELSE proc'[p].on

\* C24: a step of a call on one session leaves the buffer, the multipart handle
\* and the handle's mutex of every other session as they were, and a call that
\* wants its session's handle mutex while no other call is on that session gets
\* it, whatever calls on other sessions hold.
C24_SessionsDoNotContend ==
  [][\A p \in Callers :
       /\ proc'[p] # proc[p] =>
            \A t \in UploadSessions \ {StepSession(p)} :
              /\ buffer'[t] = buffer[t]
              /\ multipart'[t] = multipart[t]
              /\ mpLock'[t] = mpLock[t]
       /\ (proc[p].pc = "lock" /\ \A q \in Callers \ {p} : proc[q].on # proc[p].on)
            => ENABLED MpLock(p)
       /\ proc[p].pc \in {"append", "check", "drain"}
            => ENABLED (BufAppend(p) \/ BufCheck(p) \/ BufDrain(p))]_vars

\* C24 witness: a call on sA and a call on sB each hold their own session's
\* handle mutex, both inside a backend call at the same time.
C24_Witness ==
  /\ proc["p1"].pc = "io" /\ proc["p1"].on = "sA" /\ mpLock["sA"] = "p1"
  /\ proc["p2"].pc = "io" /\ proc["p2"].on = "sB" /\ mpLock["sB"] = "p2"
  /\ proc["p1"].next = "put_part" /\ proc["p2"].next = "put_part"

TaxonomyAtoms ==
  {"not_found", "already_exists", "precondition_failed", "not_modified",
   "not_supported", "permission_denied", "error"}

\* C28: start_upload_session whose put_multipart fails, and upload_chunk whose
\* put_part fails, return the classified backend error, an atom of the taxonomy.
C28_ClassifiedUploadErrors ==
  (ret.op \in {"start_upload_session", "upload_chunk"} /\ ret.result # "ok")
    => ret.result \in TaxonomyAtoms

\* The numbers in seq increase from left to right.
Increasing(seq) == \A i, j \in 1..Len(seq) : i < j => seq[i] < seq[j]

\* C30: under upload_chunk calls that run at the same time on one session, the
\* parts reach the backend in the order their bytes were drained: the bytes of
\* the parts, one part after the other, are in the order they entered the buffer.
C30_PartsInAppendOrder ==
  \A s \in UploadSessions : OnlyUploadChunk(s) => Increasing(Flatten(Parts(s)))

\* -------------------------------------- single-shot operations, C26 to C29
\* The error kinds with an atom of their own.
SpecificKinds ==
  {"NotFound", "AlreadyExists", "Precondition", "NotModified", "NotSupported",
   "PermissionDenied"}

\* C26: map_error gives an atom for every backend error kind, the same whenever
\* it is asked: NotFound, AlreadyExists, Precondition, NotModified, NotSupported
\* and PermissionDenied get six different atoms of their own, and every other
\* kind gets the generic atom error.
C26_MapErrorClassifies ==
  /\ \A e \in ErrorKinds : map_error(e) \in TaxonomyAtoms
  /\ \A e1, e2 \in SpecificKinds : e1 # e2 => map_error(e1) # map_error(e2)
  /\ \A e \in SpecificKinds : map_error(e) # "error"
  /\ \A e \in ErrorKinds \ SpecificKinds : map_error(e) = "error"
  /\ opcall.op = "map_error" =>
       opcall.result =
         (CASE opcall.arg = "NotFound" -> "not_found"
            [] opcall.arg = "AlreadyExists" -> "already_exists"
            [] opcall.arg = "Precondition" -> "precondition_failed"
            [] opcall.arg = "NotModified" -> "not_modified"
            [] opcall.arg = "NotSupported" -> "not_supported"
            [] opcall.arg = "PermissionDenied" -> "permission_denied"
            [] OTHER -> "error")

\* C26 witness: an error kind without an arm of its own was classified.
C26_Witness ==
  /\ opcall.op = "map_error"
  /\ opcall.arg = "Unauthenticated" /\ opcall.result = "error"

\* C27: delete_many returns (succeeded, failed) for whatever the delete stream
\* yielded: succeeded counts the Ok results, failed holds one (index, reason)
\* pair per Err result, the index being the result's position counted from 0,
\* the indices increasing, and succeeded + length(failed) is the number of results.
C27_DeleteManyReports ==
  opcall.op = "delete_many" =>
    LET results == opcall.arg
        succeeded == opcall.result[1]
        failed == opcall.result[2]
    IN  /\ Len(opcall.result) = 2
        /\ succeeded + Len(failed) = Len(results)
        /\ succeeded = Cardinality({i \in 1..Len(results) : results[i] = "ok"})
        /\ \A k \in 1..Len(failed) :
             /\ failed[k][1] \in 0..(Len(results) - 1)
             /\ results[failed[k][1] + 1] # "ok"
             /\ failed[k][2] = Display(results[failed[k][1] + 1])
        /\ \A j, k \in 1..Len(failed) : j < k => failed[j][1] < failed[k][1]

\* C27 witness: a batch whose first delete failed and whose second succeeded.
C27_Witness ==
  /\ opcall.op = "delete_many"
  /\ Len(opcall.arg) = 2 /\ opcall.arg[1] = "NotFound" /\ opcall.arg[2] = "ok"
  /\ opcall.result = <<1, <<(<<0, Display("NotFound")>>)>>>>

\* C29: after rename_if_not_exists(from, to) has returned, either it returned
\* ok, the destination holds the content the source had and the source is gone,
\* or it returned an error and source and destination are as they were before
\* the call; the delete is not made when the copy failed.
C29_RenameAtomic ==
  opcall.op = "rename_if_not_exists" =>
    LET a == opcall.arg IN
    \/ /\ opcall.result = "ok"
       /\ store[a.to] = a.before[a.from]
       /\ store[a.from] = NoObject
    \/ /\ opcall.result # "ok"
       /\ store = a.before

\* ------------------------------------------- upload session, C31 to C33
\* The backend's complete or abort has been called on the handle of s.
HandleEnded(s) ==
  \E i \in 1..Len(multipart[s]) : multipart[s][i].op \in {"complete", "abort"}

\* Caller p is inside an upload_chunk that was made before any complete_upload
\* or abort_upload on its session had returned, and calls put_part in this step.
ConcurrentChunkPuts(p) ==
  /\ proc[p].op = "upload_chunk" /\ proc[p].pc = "io"
  /\ multipart'[proc[p].on] # multipart[proc[p].on]
  /\ \A i \in 1..proc[p].began : calls[proc[p].on][i].op = "upload_chunk"

\* C31: when an upload_chunk runs at the same time as a complete_upload or an
\* abort_upload on its session, its put_part does not reach the backend after
\* the backend's complete or abort was called on the handle.
C31_NoPartAfterEnd ==
  [][\A p \in Callers : ConcurrentChunkPuts(p) => ~HandleEnded(proc[p].on)]_vars

\* The blocks in seq.
Blocks(seq) == {seq[i] : i \in 1..Len(seq)}

\* C32: the bytes drained for a part whose put_part fails are not put back: when
\* upload_chunk or complete_upload returns the error of its put_part the buffer
\* is empty, that put_part was the call's only backend call, and the bytes of a
\* failed part are neither in the buffer nor in any part put later.
C32_FailedPartBytesAreDropped ==
  [][\A s \in UploadSessions :
       /\ (/\ CallStep(s, {"upload_chunk", "complete_upload"})
           /\ Last(calls'[s]).result \in {"Failed to upload part",
                                          "Failed to upload final part"})
            => /\ buffer'[s] = << >>
               /\ Len(NewBackendCalls(s)) = 1
               /\ NewBackendCalls(s)[1].op = "put_part"
               /\ ~NewBackendCalls(s)[1].ok
               /\ NewBackendCalls(s)[1].data # << >>
       /\ \A i \in 1..Len(multipart'[s]) :
            (multipart'[s][i].op = "put_part" /\ ~multipart'[s][i].ok)
              => /\ Blocks(multipart'[s][i].data) \cap Blocks(buffer'[s]) = {}
                 /\ \A j \in (i + 1)..Len(multipart'[s]) :
                      multipart'[s][j].op = "put_part"
                        => Blocks(multipart'[s][i].data)
                             \cap Blocks(multipart'[s][j].data) = {}]_vars

\* C32 witness: an upload_chunk failed at its put_part, a later upload_chunk
\* put a part of its own, and complete_upload has returned ok.
C32_Witness ==
  /\ Len(calls["sA"]) = 3
  /\ calls["sA"][1].result = "Failed to upload part"
  /\ calls["sA"][2].op = "upload_chunk" /\ calls["sA"][2].result = "ok"
  /\ calls["sA"][3] = [op |-> "complete_upload", arg |-> NoData, result |-> "ok"]
  /\ Len(Parts("sA")) = 2

\* C33: on a session used by one caller at a time, between calls the buffer
\* holds fewer than part_size bytes, whatever upload_chunk, complete_upload and
\* abort_upload calls were made and whether they returned ok or an error.
C33_BufferBelowThreshold ==
  \A s \in UploadSessions : Len(buffer[s]) < part_size

\* C33 witness: after an upload_chunk that failed at its put_part and an
\* abort_upload that failed, the buffer holds part_size - 1 bytes.
C33_Witness ==
  /\ Len(buffer["sA"]) = part_size - 1
  /\ \E i \in 1..Len(calls["sA"]) : calls["sA"][i].result = "Failed to upload part"
  /\ \E i \in 1..Len(calls["sA"]) : calls["sA"][i].result = "Failed to abort upload"

\* The tasks whose handle cancel_download_stream(id) takes out of the registry.
Cancelled(id) ==
  IF id \in DOMAIN STREAM_REGISTRY THEN {STREAM_REGISTRY[id]} ELSE {}

\* C34: cancel_download_stream(id) touches session id only: every other entry of
\* the download registry and the whole list registry stay as they were, and the
\* task of every other stream is neither aborted nor otherwise changed, keeps
\* its mailbox and its receiver, and can take its next step just as before.
C34_CancelAffectsOnlyItsSession ==
  [][\A id \in CancelIds :
       CancelDownloadStream(id) =>
         /\ \A k \in DOMAIN STREAM_REGISTRY \ {id} :
              k \in DOMAIN STREAM_REGISTRY' /\ STREAM_REGISTRY'[k] = STREAM_REGISTRY[k]
         /\ DOMAIN STREAM_REGISTRY' \subseteq DOMAIN STREAM_REGISTRY
         /\ LIST_REGISTRY' = LIST_REGISTRY
         /\ \A h \in StreamIds \ Cancelled(id) :
              /\ task'[h] = task[h]
              /\ mailbox'[h] = mailbox[h]
              /\ backend'[h] = backend[h]
              /\ receiverAlive'[h] = receiverAlive[h]
              /\ (ENABLED TaskStep(h)) => (ENABLED TaskStep(h))']_vars

\* C34 witness: stream 1 was cancelled in its wait, and stream 2, still in the
\* registry and not aborted, has delivered a chunk and is about to send the next.
C34_Witness ==
  /\ ret.op = "cancel_download_stream"
  /\ task[StreamId(1)].pc = "cancelled"
  /\ StreamId(1) \notin DOMAIN STREAM_REGISTRY
  /\ StreamId(2) \in DOMAIN STREAM_REGISTRY
  /\ task[StreamId(2)].pc = "send"
  /\ ~task[StreamId(2)].aborted
  /\ Len(mailbox[StreamId(2)]) = 1

====
